---- MODULE Spec2Model ----
(***************************************************************************)
(* A model of calc_rs: the lexer (src/src/lexer.rs), the precedence-       *)
(* climbing parser (src/src/parser.rs) and the evaluator                   *)
(* (src/src/executor.rs).                                                  *)
(*                                                                         *)
(* i64 values do not fit TLC's 32-bit integers, so an integer is kept as a *)
(* sign and a magnitude, the magnitude a little-endian sequence of base    *)
(* 10^4 limbs without leading zero limbs.  All arithmetic below is exact;  *)
(* the 64-bit range is imposed where the code imposes it.                  *)
(***************************************************************************)
EXTENDS Integers, Sequences, FiniteSets

VARIABLES
    expr,             \* executor: the tree handed to eval
    overflow_checks,  \* executor: TRUE for a build with overflow checks (debug)
    result,           \* executor: what eval returned
    muls,             \* executor: checked_mul calls made by the root factorial
    tokens,           \* Parser.tokens
    index,            \* Parser.index
    stack,            \* parser: the call stack of parse, the running call last
    ret,              \* parser: the Option<Expr> the last call returned
    grouped,          \* parser: ret came out of parse_grouped_expr
    postfix_log,      \* parser: the operands parse_postfix_expr wrapped
    line,             \* lexer: the text given to Lexer::new
    input,            \* Lexer.input: the characters not yet consumed
    lexed,            \* tokenize: its local tokens
    sum,              \* consume_num: its local sum
    lex_pc,           \* lexer: "tokenize", "consume_num" or "done"
    lex_out           \* lexer: what tokenize returned

-----------------------------------------------------------------------------
(* Exact integers.                                                         *)

Limb(m, i) == IF i <= Len(m) THEN m[i] ELSE 0

\* the largest element of a nonempty set of numbers
MaxOf(d) == CHOOSE i \in d : \A j \in d : j <= i

\* m without its leading zero limbs
MagNorm(m) ==
    LET nz == {i \in 1..Len(m) : m[i] # 0}
    IN  IF nz = {} THEN <<>> ELSE SubSeq(m, 1, MaxOf(nz))

MagCmp(a, b) ==
    IF Len(a) < Len(b) THEN -1
    ELSE IF Len(a) > Len(b) THEN 1
    ELSE LET d == {i \in 1..Len(a) : a[i] # b[i]}
         IN  IF d = {} THEN 0
             ELSE IF a[MaxOf(d)] < b[MaxOf(d)] THEN -1 ELSE 1

\* a + b: limb i takes a carry when a lower limb overflows and every limb in
\* between passes the carry on
MagAdd(a, b) ==
    IF a = <<>> THEN MagNorm(b) ELSE IF b = <<>> THEN MagNorm(a) ELSE
    LET n    == IF Len(a) > Len(b) THEN Len(a) ELSE Len(b)
        s(i) == Limb(a, i) + Limb(b, i)
        c(i) == IF \E j \in 1..(i - 1) :
                       s(j) >= 10000 /\ \A k \in (j + 1)..(i - 1) : s(k) = 9999
                THEN 1 ELSE 0
    IN  MagNorm([i \in 1..(n + 1) |-> (s(i) + c(i)) % 10000])

\* a - b for a >= b, with the borrows found as the carries of MagAdd are
MagSub(a, b) ==
    LET d(i) == a[i] - Limb(b, i)
        c(i) == IF \E j \in 1..(i - 1) :
                       d(j) < 0 /\ \A k \in (j + 1)..(i - 1) : d(k) = 0
                THEN 1 ELSE 0
    IN  MagNorm([i \in 1..Len(a) |-> (d(i) - c(i) + 10000) % 10000])

\* a * k for a limb k: the low halves of the limb products plus the high
\* halves moved up a limb
MagMulSmall(a, k) ==
    MagAdd([i \in 1..Len(a) |-> (a[i] * k) % 10000],
           <<0>> \o [i \in 1..Len(a) |-> (a[i] * k) \div 10000])

MagShift(m) == IF m = <<>> THEN m ELSE <<0>> \o m

RECURSIVE MagMul(_, _)
MagMul(a, b) ==
    IF b = <<>> THEN <<>>
    ELSE LET t == MagMul(a, Tail(b))
         IN  IF t = <<>> THEN MagMulSmall(a, Head(b))
             ELSE MagAdd(MagMulSmall(a, Head(b)), MagShift(t))

\* the decimal digit x of the quotient at the place k: the largest with
\* b * k * x <= a, for a < 10 * k * b
QuotDigit(a, b, k) == Cardinality({x \in 1..9 : MagCmp(MagMulSmall(b, k * x), a) <= 0})

\* quotient and remainder of a by b > 0 for a < 10^4 * b: a decimal digit of the
\* quotient at a time, from the place k down, q the digits found so far
RECURSIVE MagDivModLimb(_, _, _, _)
MagDivModLimb(a, b, k, q) ==
    IF k = 0 THEN [q |-> MagNorm(<<q>>), r |-> a]
    ELSE MagDivModLimb(MagSub(a, MagMulSmall(b, k * QuotDigit(a, b, k))), b,
                       k \div 10, q + k * QuotDigit(a, b, k))

\* the quotient limbs hq above the limb d.q, and the remainder d.r
MagDivModJoin(hq, d) ==
    IF hq = <<>> THEN d ELSE [q |-> MagAdd(MagShift(hq), d.q), r |-> d.r]

\* long division by b continued from h, the quotient and remainder by 10^4 * b
MagDivModStep(h, b) == MagDivModJoin(h.q, MagDivModLimb(h.r, b, 1000, 0))

\* quotient and remainder of a by b > 0: long division, a limb of the quotient
\* at a time
RECURSIVE MagDivMod(_, _)
MagDivMod(a, b) ==
    IF MagCmp(a, b) < 0 THEN [q |-> <<>>, r |-> a]
    ELSE MagDivModStep(MagDivMod(a, MagShift(b)), b)

\* m halved, rounding down
MagHalf(m) ==
    MagNorm([i \in 1..Len(m) |-> m[i] \div 2 + (IF Limb(m, i + 1) % 2 = 1 THEN 5000 ELSE 0)])

MkInt(neg, mag) == [neg |-> neg /\ mag # <<>>, mag |-> mag]

\* the integer n of TLC, |n| < 10^8
I(n) ==
    LET a == IF n < 0 THEN -n ELSE n
    IN  MkInt(n < 0, MagNorm(<<a % 10000, a \div 10000>>))

\* the integer whose decimal digits, in groups of four, are g (most significant first)
RECURSIVE Rev(_)
Rev(s) == IF s = <<>> THEN s ELSE Rev(Tail(s)) \o <<Head(s)>>

Dec(g) == MkInt(FALSE, MagNorm(Rev(g)))

INeg(x) == MkInt(~x.neg, x.mag)

IAdd(x, y) ==
    IF x.neg = y.neg THEN MkInt(x.neg, MagAdd(x.mag, y.mag))
    ELSE IF MagCmp(x.mag, y.mag) >= 0 THEN MkInt(x.neg, MagSub(x.mag, y.mag))
    ELSE MkInt(y.neg, MagSub(y.mag, x.mag))

ISub(x, y) == IAdd(x, INeg(y))

IMul(x, y) == MkInt(x.neg # y.neg, MagMul(x.mag, y.mag))

\* x / y truncated toward zero, y # 0
IDiv(x, y) == MkInt(x.neg # y.neg, MagDivMod(x.mag, y.mag).q)

\* x - y * IDiv(x, y): the sign of x
IRem(x, y) == MkInt(x.neg, MagDivMod(x.mag, y.mag).r)

ICmp(x, y) ==
    IF x.neg # y.neg THEN (IF x.neg THEN -1 ELSE 1)
    ELSE IF x.neg THEN MagCmp(y.mag, x.mag)
    ELSE MagCmp(x.mag, y.mag)

ILe(x, y) == ICmp(x, y) <= 0

ILt(x, y) == ICmp(x, y) < 0

-----------------------------------------------------------------------------
(* i64 and its checked operations.                                         *)

I64_MAX == Dec(<<922, 3372, 368, 5477, 5807>>)

I64_MIN == ISub(INeg(I64_MAX), I(1))

InI64(x) == ILe(I64_MIN, x) /\ ILe(x, I64_MAX)

None == [k |-> "None"]

Panic == [k |-> "Panic"]

Some(v) == [k |-> "Some", v |-> v]

Checked(r) == IF InI64(r) THEN Some(r) ELSE None

checked_add(a, b) == Checked(IAdd(a, b))

checked_sub(a, b) == Checked(ISub(a, b))

checked_mul(a, b) == Checked(IMul(a, b))

checked_div(a, b) ==
    IF b = I(0) \/ (a = I64_MIN /\ b = I(-1)) THEN None ELSE Some(IDiv(a, b))

checked_rem(a, b) ==
    IF b = I(0) \/ (a = I64_MIN /\ b = I(-1)) THEN None ELSE Some(IRem(a, b))

\* r modulo 2^64 as an i64, the result of the wrapping_ operations
wrapping(r) ==
    LET half == IAdd(I64_MAX, I(1))
        m    == IAdd(half, half)
    IN  IF InI64(r) THEN r
        ELSE ISub(IRem(IAdd(IRem(IAdd(r, half), m), m), m), half)

\* core::num i64::checked_pow: square and multiply, exp a u32
RECURSIVE checked_pow_loop(_, _, _)
checked_pow_loop(base, acc, exp) ==
    LET odd  == exp[1] % 2 = 1
        acc1 == IF odd THEN checked_mul(acc, base) ELSE Some(acc)
        b2   == checked_mul(base, base)
    IN  IF acc1 = None THEN None
        ELSE IF odd /\ exp = <<1>> THEN acc1
        ELSE IF b2 = None THEN None
        ELSE checked_pow_loop(b2.v, acc1.v, MagHalf(exp))

checked_pow(n, exp) ==
    IF exp = <<>> THEN Some(I(1)) ELSE checked_pow_loop(n, I(1), exp)

\* -n: overflows for i64::MIN, where a build with overflow checks panics and a
\* build without them wraps to i64::MIN
neg(n, checks) ==
    IF n = I64_MIN
    THEN (IF checks THEN Panic ELSE Some(I64_MIN))
    ELSE Some(INeg(n))

-----------------------------------------------------------------------------
(* ast.rs: Expr.                                                           *)

UnaryExpr(n) == [k |-> "UnaryExpr", n |-> n]

PrefixPlus == [p |-> "Plus"]

PrefixMinus == [p |-> "Minus"]

PrefixExpr(op, e) == [k |-> "PrefixExpr", op |-> op, e |-> e]

PostfixExpr(op, e) == [k |-> "PostfixExpr", op |-> op, e |-> e]

BinaryExpr(left, right, op) ==
    [k |-> "BinaryExpr", left |-> left, right |-> right, op |-> op]

Factorial == [p |-> "Factorial"]

\* exp is a u32, kept as a magnitude
Exponential(exp) == [p |-> "Exponential", exp |-> exp]

-----------------------------------------------------------------------------
(* executor.rs.                                                            *)

\* for i in i..=n { sum = sum.checked_mul(i)? }, counting the multiplications
RECURSIVE factorial_loop(_, _, _, _)
factorial_loop(acc, i, n, count) ==
    CASE ~ILe(i, n) -> [out |-> Some(acc), muls |-> count]
      [] ILe(i, n) /\ checked_mul(acc, i) = None -> [out |-> None, muls |-> count + 1]
      [] OTHER -> factorial_loop(checked_mul(acc, i).v, IAdd(i, I(1)), n, count + 1)

\* factorial with the range 2..n in place of 2..=n
factorial_run_exclusive(n) == factorial_loop(I(1), I(2), ISub(n, I(1)), 0)

factorial_run(n) == factorial_loop(I(1), I(2), n, 0)

factorial(n) == factorial_run(n).out

eval_prefix(op, n, checks) == IF op = PrefixMinus THEN neg(n, checks) ELSE Some(n)

eval_postfix(op, n) ==
    IF op.p = "Factorial" THEN factorial(n) ELSE checked_pow(n, op.exp)

\* eval's Binary arm with wrapping_add in place of checked_add
eval_binary_wrapping(op, left, right) ==
    CASE op = "Add" ->
            Some(wrapping(IAdd(left, right)))
      [] op = "Sub" -> checked_sub(left, right)
      [] op = "Div" -> checked_div(left, right)
      [] op = "Mul" -> checked_mul(left, right)
      [] op = "Rem" -> checked_rem(left, right)

\* eval's Binary arm with a remainder that guards only against the overflow
eval_binary_rem_unguarded(op, left, right) ==
    CASE op = "Add" -> checked_add(left, right)
      [] op = "Sub" -> checked_sub(left, right)
      [] op = "Div" -> checked_div(left, right)
      [] op = "Mul" -> checked_mul(left, right)
      [] op = "Rem" -> IF right = I(0) THEN Some(left) ELSE checked_rem(left, right)

eval_binary(op, left, right) ==
    CASE op = "Add" -> checked_add(left, right)
      [] op = "Sub" -> checked_sub(left, right)
      [] op = "Div" -> checked_div(left, right)
      [] op = "Mul" -> checked_mul(left, right)
      [] op = "Rem" -> checked_rem(left, right)

\* Some(n), None, or Panic when the process aborts
RECURSIVE eval(_, _)
eval(e, checks) ==
    CASE e.k = "UnaryExpr" -> Some(e.n)
      [] e.k = "PrefixExpr" ->
            LET n == eval(e.e, checks)
            IN  IF n.k # "Some" THEN n ELSE eval_prefix(e.op, n.v, checks)
      [] e.k = "PostfixExpr" ->
            LET n == eval(e.e, checks)
            IN  IF n.k # "Some" THEN n ELSE eval_postfix(e.op, n.v)
      [] e.k = "BinaryExpr" ->
            LET left == eval(e.left, checks)
            IN  IF left.k # "Some" THEN left
                ELSE LET right == eval(e.right, checks)
                     IN  IF right.k # "Some" THEN right
                         ELSE eval_binary(e.op, left.v, right.v)

Pending == [k |-> "Pending"]

-----------------------------------------------------------------------------
(* token.rs: Token.                                                        *)

Num(n) == [t |-> "Num", n |-> n]

Plus == [t |-> "Plus"]

Minus == [t |-> "Minus"]

Asterisk == [t |-> "Asterisk"]

Slash == [t |-> "Slash"]

Percent == [t |-> "Percent"]

Lparen == [t |-> "Lparen"]

Rparen == [t |-> "Rparen"]

Exclamation == [t |-> "Exclamation"]

Circumflex == [t |-> "Circumflex"]

\* Vec::get past the end
NoToken == [t |-> "None"]

-----------------------------------------------------------------------------
(* parser.rs.  A configuration c of a running parse is the Parser (tokens, *)
(* index), the call stack, the value the last call returned, and the       *)
(* record of what parse_postfix_expr wrapped.                              *)

Lowest == 0

Sum == 1

Product == 2

Prefix == 3

\* Vec::get with a 0-based index
Get(s, i) == IF i >= 0 /\ i < Len(s) THEN s[i + 1] ELSE NoToken

current_token(c) == Get(c.tokens, c.index)

peek_token(c) == Get(c.tokens, c.index + 1)

\* peek_token_to_precedence with one precedence for every binary operator
peek_token_to_precedence_flat(c) ==
    IF peek_token(c).t \in {"Minus", "Plus", "Slash", "Asterisk", "Percent"}
    THEN Sum ELSE Lowest

peek_token_to_precedence(c) ==
    LET t == peek_token(c).t
    IN  IF t \in {"Minus", "Plus"} THEN Sum
        ELSE IF t \in {"Slash", "Asterisk", "Percent"} THEN Product
        ELSE Lowest

peek_token_is(c, token) == peek_token(c) = token

\* self.next()
next(c) == [c EXCEPT !.index = @ + 1]

\* n as u32 for an i64 n
AsU32(n) ==
    LET two32 == <<7296, 9496, 42>>
        r     == MagDivMod(n.mag, two32).r
    IN  IF n.neg /\ r # <<>> THEN MagSub(two32, r) ELSE r

\* parse_postfix_expr(lhs) at configuration c: the configuration after it, with
\* what it returned in ret
parse_postfix_expr(c, lhs) ==
    LET t == peek_token(c).t
    IN  IF t = "Exclamation"
        THEN [next(c) EXCEPT
                 !.ret = PostfixExpr(Factorial, lhs),
                 !.postfix_log = @ \cup {[operand |-> lhs, grouped |-> c.grouped]}]
        ELSE IF t = "Circumflex"
        THEN LET c2 == next(next(c))
             IN  IF current_token(c2).t = "Num"
                 THEN [c2 EXCEPT
                          !.ret = PostfixExpr(Exponential(AsU32(current_token(c2).n)), lhs),
                          !.postfix_log =
                              @ \cup {[operand |-> lhs, grouped |-> c.grouped]}]
                 ELSE [c2 EXCEPT !.ret = None]
        ELSE [c EXCEPT !.ret = lhs]

\* the operator and the right-hand side's precedence parse_infix_expr takes for a token
InfixOperator(t) ==
    CASE t = "Plus" -> [op |-> "Add", p |-> Sum]
      [] t = "Minus" -> [op |-> "Sub", p |-> Sum]
      [] t = "Slash" -> [op |-> "Div", p |-> Product]
      [] t = "Asterisk" -> [op |-> "Mul", p |-> Product]
      [] t = "Percent" -> [op |-> "Rem", p |-> Product]
      [] OTHER -> [op |-> "None", p |-> Lowest]

Frame(fn, pc, p) == [fn |-> fn, pc |-> pc, p |-> p, lhs |-> None, op |-> "None"]

Top(c) == c.stack[Len(c.stack)]

At(c, fn, pc) == c.stack # <<>> /\ Top(c).fn = fn /\ Top(c).pc = pc

SetTop(c, f) == [c EXCEPT !.stack[Len(c.stack)] = f]

Push(c, f) == [c EXCEPT !.stack = Append(@, f)]

\* return v from the running call
Return(c, v) ==
    [c EXCEPT !.stack = SubSeq(@, 1, Len(@) - 1), !.ret = v]

\* Parser::new(tokens) with parse() entered
NewParser(toks) ==
    [tokens |-> toks, index |-> 0, stack |-> <<Frame("parse_expr", "start", Lowest)>>,
     ret |-> None, grouped |-> FALSE, postfix_log |-> {}]

\* parse_expr, line 27: call parse_prefix_expr
En_parse_expr_prefix(c) == At(c, "parse_expr", "start")

Do_parse_expr_prefix(c) ==
    Push(SetTop(c, [Top(c) EXCEPT !.pc = "postfix"]),
         Frame("parse_prefix_expr", "start", Lowest))

\* parse_prefix_expr on Plus or Minus: next, call parse_expr(Prefix)
En_parse_prefix_expr_unary(c) ==
    At(c, "parse_prefix_expr", "start") /\ current_token(c).t \in {"Plus", "Minus"}

\* parse_prefix_expr parsing the operand of a sign with parse_expr(Lowest)
Do_parse_prefix_expr_unary_lowest(c) ==
    Push(SetTop(next(c), [Top(c) EXCEPT !.pc = "wrap", !.op = [p |-> current_token(c).t]]),
         Frame("parse_expr", "start", Lowest))

Do_parse_prefix_expr_unary(c) ==
    Push(SetTop(next(c), [Top(c) EXCEPT !.pc = "wrap", !.op = [p |-> current_token(c).t]]),
         Frame("parse_expr", "start", Prefix))

\* parse_prefix_expr after its operand: None, or the PrefixExpr
En_parse_prefix_expr_wrap(c) == At(c, "parse_prefix_expr", "wrap")

Do_parse_prefix_expr_wrap(c) ==
    IF c.ret = None THEN Return(c, None)
    ELSE [Return(c, PrefixExpr(Top(c).op, c.ret)) EXCEPT !.grouped = FALSE]

\* parse_prefix_expr on a Num: the literal, the cursor stays
En_parse_prefix_expr_num(c) ==
    At(c, "parse_prefix_expr", "start") /\ current_token(c).t = "Num"

Do_parse_prefix_expr_num(c) ==
    [Return(c, UnaryExpr(current_token(c).n)) EXCEPT !.grouped = FALSE]

\* parse_prefix_expr on Lparen: parse_grouped_expr, which calls next and
\* parse_expr(Lowest)
En_parse_grouped_expr(c) ==
    At(c, "parse_prefix_expr", "start") /\ current_token(c).t = "Lparen"

Do_parse_grouped_expr(c) ==
    Push(SetTop(next(c), Frame("parse_grouped_expr", "close", Lowest)),
         Frame("parse_expr", "start", Lowest))

\* parse_grouped_expr after the inner expression: the closing parenthesis
En_parse_grouped_expr_close(c) == At(c, "parse_grouped_expr", "close")

\* parse_grouped_expr rewinding the cursor when the parenthesis is missing
Do_parse_grouped_expr_close_rewind(c) ==
    IF peek_token_is(c, Rparen)
    THEN [Return(next(c), c.ret) EXCEPT !.grouped = TRUE]
    ELSE Return([c EXCEPT !.index = 0], None)

Do_parse_grouped_expr_close(c) ==
    IF peek_token_is(c, Rparen)
    THEN [Return(next(c), c.ret) EXCEPT !.grouped = TRUE]
    ELSE Return(c, None)

\* parse_prefix_expr on any other token, or on none
En_parse_prefix_expr_none(c) ==
    /\ At(c, "parse_prefix_expr", "start")
    /\ current_token(c).t \notin {"Plus", "Minus", "Num", "Lparen"}

Do_parse_prefix_expr_none(c) == Return(c, None)

\* parse_expr, lines 27-28: the ? on the prefix expression, then parse_postfix_expr
En_parse_expr_postfix(c) == At(c, "parse_expr", "postfix")

Do_parse_expr_postfix(c) ==
    IF c.ret = None THEN Return(c, None)
    ELSE LET d == parse_postfix_expr(c, c.ret)
         IN  IF d.ret = None THEN Return(d, None)
             ELSE SetTop(d, [Top(d) EXCEPT !.pc = "loop", !.lhs = d.ret])

\* parse_expr, lines 30-32: the loop takes an operator; parse_infix_expr calls
\* next and parse_expr for the right-hand side
En_parse_expr_infix(c) ==
    /\ At(c, "parse_expr", "loop")
    /\ peek_token(c) # NoToken
    /\ Top(c).p < peek_token_to_precedence(c)

Do_parse_expr_infix(c) ==
    LET d  == next(c)
        io == InfixOperator(current_token(d).t)
    IN  IF io.op = "None" THEN Return(d, None)
        ELSE Push(SetTop(next(d), [Top(d) EXCEPT !.pc = "infix", !.op = io.op]),
                  Frame("parse_expr", "start", io.p))

\* parse_infix_expr after the right-hand side: None, or the BinaryExpr as the
\* loop's new lhs
En_parse_infix_expr_rhs(c) == At(c, "parse_expr", "infix")

\* parse_infix_expr without the ? on the right-hand side: the loop keeps lhs
Do_parse_infix_expr_rhs_lenient(c) ==
    IF c.ret = None THEN SetTop(c, [Top(c) EXCEPT !.pc = "loop"])
    ELSE SetTop(c, [Top(c) EXCEPT
                       !.pc = "loop",
                       !.lhs = BinaryExpr(Top(c).lhs, c.ret, Top(c).op)])

Do_parse_infix_expr_rhs(c) ==
    IF c.ret = None THEN Return(c, None)
    ELSE SetTop(c, [Top(c) EXCEPT
                       !.pc = "loop",
                       !.lhs = BinaryExpr(Top(c).lhs, c.ret, Top(c).op)])

\* parse_expr, line 35: the loop is over
En_parse_expr_return(c) ==
    /\ At(c, "parse_expr", "loop")
    /\ ~(peek_token(c) # NoToken /\ Top(c).p < peek_token_to_precedence(c))

\* parse_expr refusing, in the outermost call, tokens that are left over
Do_parse_expr_return_strict(c) ==
    IF Len(c.stack) = 1 /\ peek_token(c) # NoToken THEN Return(c, None)
    ELSE Return(c, Top(c).lhs)

Do_parse_expr_return(c) == Return(c, Top(c).lhs)

\* one step of a running parse
ParseStep(c) ==
    CASE En_parse_expr_prefix(c) -> Do_parse_expr_prefix(c)
      [] En_parse_prefix_expr_unary(c) -> Do_parse_prefix_expr_unary(c)
      [] En_parse_prefix_expr_wrap(c) -> Do_parse_prefix_expr_wrap(c)
      [] En_parse_prefix_expr_num(c) -> Do_parse_prefix_expr_num(c)
      [] En_parse_grouped_expr(c) -> Do_parse_grouped_expr(c)
      [] En_parse_grouped_expr_close(c) -> Do_parse_grouped_expr_close(c)
      [] En_parse_prefix_expr_none(c) -> Do_parse_prefix_expr_none(c)
      [] En_parse_expr_postfix(c) -> Do_parse_expr_postfix(c)
      [] En_parse_expr_infix(c) -> Do_parse_expr_infix(c)
      [] En_parse_infix_expr_rhs(c) -> Do_parse_infix_expr_rhs(c)
      [] En_parse_expr_return(c) -> Do_parse_expr_return(c)

RECURSIVE ParseRun(_)
ParseRun(c) == IF c.stack = <<>> THEN c ELSE ParseRun(ParseStep(c))

\* Parser::new(toks).parse()
parse(toks) == ParseRun(NewParser(toks)).ret

-----------------------------------------------------------------------------
(* lexer.rs.  A character is a one-character string.                       *)

Digits == <<"0", "1", "2", "3", "4", "5", "6", "7", "8", "9">>

IsDigit(ch) == \E d \in 1..10 : Digits[d] = ch

\* ch.to_digit(10)
to_digit(ch) == (CHOOSE d \in 1..10 : Digits[d] = ch) - 1

is_whitespace(ch) == ch \in {" ", "\t", "\n", "\r"}

\* the token of a one-character symbol, NoToken for any other character
SymbolToken(ch) ==
    CASE ch = "+" -> Plus
      [] ch = "-" -> Minus
      [] ch = "*" -> Asterisk
      [] ch = "/" -> Slash
      [] ch = "%" -> Percent
      [] ch = "(" -> Lparen
      [] ch = ")" -> Rparen
      [] ch = "!" -> Exclamation
      [] ch = "^" -> Circumflex
      [] OTHER -> NoToken

\* self.input.peek(): the next character, "" at the end
peek(s) == IF s = <<>> THEN "" ELSE Head(s)

\* consume_num, lines 76-78: sum.checked_mul(10)?.checked_add(digit)?
\* consume_num accumulating with wrapping_mul and wrapping_add: an overflowing
\* run stays a number
accumulate_wrapping(acc, ch) ==
    Some(wrapping(IAdd(wrapping(IMul(acc, I(10))), I(to_digit(ch)))))

accumulate(acc, ch) ==
    LET temp == checked_mul(acc, I(10))
    IN  IF temp = None THEN None ELSE checked_add(temp.v, I(to_digit(ch)))

\* tokenize, lines 18-21: skip a whitespace character
tokenize_whitespace ==
    /\ lex_pc = "tokenize" /\ is_whitespace(peek(input))
    /\ input' = Tail(input)
    /\ UNCHANGED <<line, lexed, sum, lex_pc, lex_out>>
    /\ UNCHANGED <<expr, overflow_checks, result, muls>>
    /\ UNCHANGED <<tokens, index, stack, ret, grouped, postfix_log>>

\* tokenize, lines 24-59 and 64: a symbol becomes its token
tokenize_symbol ==
    /\ lex_pc = "tokenize" /\ SymbolToken(peek(input)) # NoToken
    /\ input' = Tail(input)
    /\ lexed' = Append(lexed, SymbolToken(peek(input)))
    /\ UNCHANGED <<line, sum, lex_pc, lex_out>>
    /\ UNCHANGED <<expr, overflow_checks, result, muls>>
    /\ UNCHANGED <<tokens, index, stack, ret, grouped, postfix_log>>

\* tokenize, line 60: a digit enters consume_num with sum = 0
tokenize_num ==
    /\ lex_pc = "tokenize" /\ IsDigit(peek(input))
    /\ lex_pc' = "consume_num"
    /\ sum' = I(0)
    /\ UNCHANGED <<line, input, lexed, lex_out>>
    /\ UNCHANGED <<expr, overflow_checks, result, muls>>
    /\ UNCHANGED <<tokens, index, stack, ret, grouped, postfix_log>>

\* tokenize, line 61: any other character fails the line
tokenize_unknown ==
    /\ lex_pc = "tokenize" /\ input # <<>>
    /\ ~is_whitespace(peek(input))
    /\ SymbolToken(peek(input)) = NoToken
    /\ ~IsDigit(peek(input))
    /\ lex_pc' = "done"
    /\ lex_out' = None
    /\ UNCHANGED <<line, input, lexed, sum>>
    /\ UNCHANGED <<expr, overflow_checks, result, muls>>
    /\ UNCHANGED <<tokens, index, stack, ret, grouped, postfix_log>>

\* tokenize, line 67: the characters are exhausted
tokenize_end ==
    /\ lex_pc = "tokenize" /\ input = <<>>
    /\ lex_pc' = "done"
    /\ lex_out' = [k |-> "Some", v |-> lexed]
    /\ UNCHANGED <<line, input, lexed, sum>>
    /\ UNCHANGED <<expr, overflow_checks, result, muls>>
    /\ UNCHANGED <<tokens, index, stack, ret, grouped, postfix_log>>

\* consume_num, lines 75-81: one more digit; an overflow fails tokenize (line 60's ?)
consume_num_digit ==
    /\ lex_pc = "consume_num" /\ IsDigit(peek(input))
    /\ LET a == accumulate(sum, peek(input))
       IN  IF a = None
           THEN /\ lex_pc' = "done"
                /\ lex_out' = None
                /\ UNCHANGED <<input, sum>>
           ELSE /\ sum' = a.v
                /\ input' = Tail(input)
                /\ UNCHANGED <<lex_pc, lex_out>>
    /\ UNCHANGED <<line, lexed>>
    /\ UNCHANGED <<expr, overflow_checks, result, muls>>
    /\ UNCHANGED <<tokens, index, stack, ret, grouped, postfix_log>>

\* consume_num, lines 82 and 86, and tokenize, line 64: the run is over
consume_num_return ==
    /\ lex_pc = "consume_num" /\ ~IsDigit(peek(input))
    /\ lexed' = Append(lexed, Num(sum))
    /\ lex_pc' = "tokenize"
    /\ UNCHANGED <<line, input, sum, lex_out>>
    /\ UNCHANGED <<expr, overflow_checks, result, muls>>
    /\ UNCHANGED <<tokens, index, stack, ret, grouped, postfix_log>>

-----------------------------------------------------------------------------
(* The three components as state machines.  Each specification runs one    *)
(* component on every input of a bounded set and leaves the other two at   *)
(* rest.                                                                   *)

vars ==
    <<expr, overflow_checks, result, muls,
      tokens, index, stack, ret, grouped, postfix_log,
      line, input, lexed, sum, lex_pc, lex_out>>

evalVars == <<expr, overflow_checks, result, muls>>

parserVars == <<tokens, index, stack, ret, grouped, postfix_log>>

lexerVars == <<line, input, lexed, sum, lex_pc, lex_out>>

EvalAtRest ==
    /\ expr = UnaryExpr(I(0)) /\ overflow_checks = FALSE
    /\ result = Some(I(0)) /\ muls = 0

ParserAtRest ==
    /\ tokens = <<>> /\ index = 0 /\ stack = <<>>
    /\ ret = None /\ grouped = FALSE /\ postfix_log = {}

LexerAtRest ==
    /\ line = <<>> /\ input = <<>> /\ lexed = <<>>
    /\ sum = I(0) /\ lex_pc = "done" /\ lex_out = [k |-> "Some", v |-> <<>>]

(* Lexer. *)

MaxLine == 3

MaxTail == 3

RECURSIVE SeqsUpTo(_, _)
SeqsUpTo(S, n) ==
    IF n = 0 THEN {<<>>}
    ELSE LET shorter == SeqsUpTo(S, n - 1)
         IN  shorter \cup {Append(s, x) : s \in {t \in shorter : Len(t) = n - 1}, x \in S}

LexAlphabet == {" ", "0", "1", "9", "+", "!", "a"}

FromDigits(ds) == [i \in 1..Len(ds) |-> Digits[ds[i] + 1]]

\* the first 17 digits of 9223372036854775807
MaxStem == FromDigits(<<9, 2, 2, 3, 3, 7, 2, 0, 3, 6, 8, 5, 4, 7, 7, 5, 8>>)

\* numbers of 19 and 20 digits around i64::MAX, with and without leading zeros,
\* after and before other text
LongLines ==
    {pre \o zs \o MaxStem \o tail \o post :
        pre \in {<<>>, <<"1", " ">>, <<"(">>},
        zs \in {<<>>, <<"0", "0">>},
        tail \in {t \in SeqsUpTo({"0", "5", "7", "8", "9"}, MaxTail) : Len(t) >= 2},
        post \in {<<>>, <<"+", "1">>, <<" ", "a">>}}

LexerInputs == SeqsUpTo(LexAlphabet, MaxLine) \cup LongLines

InitLexer ==
    /\ line \in LexerInputs
    /\ input = line /\ lexed = <<>> /\ sum = I(0)
    /\ lex_pc = "tokenize" /\ lex_out = None
    /\ EvalAtRest /\ ParserAtRest

NextLexer ==
    \/ tokenize_whitespace
    \/ tokenize_symbol
    \/ tokenize_num
    \/ tokenize_unknown
    \/ tokenize_end
    \/ consume_num_digit
    \/ consume_num_return

SpecLexer == InitLexer /\ [][NextLexer]_vars

(* Parser. *)

Cfg ==
    [tokens |-> tokens, index |-> index, stack |-> stack, ret |-> ret,
     grouped |-> grouped, postfix_log |-> postfix_log]

SetCfg(c) ==
    /\ tokens' = c.tokens /\ index' = c.index /\ stack' = c.stack
    /\ ret' = c.ret /\ grouped' = c.grouped /\ postfix_log' = c.postfix_log
    /\ UNCHANGED <<evalVars, lexerVars>>

ParseExprPrefix == En_parse_expr_prefix(Cfg) /\ SetCfg(Do_parse_expr_prefix(Cfg))

ParsePrefixExprUnary ==
    En_parse_prefix_expr_unary(Cfg) /\ SetCfg(Do_parse_prefix_expr_unary(Cfg))

ParsePrefixExprWrap ==
    En_parse_prefix_expr_wrap(Cfg) /\ SetCfg(Do_parse_prefix_expr_wrap(Cfg))

ParsePrefixExprNum ==
    En_parse_prefix_expr_num(Cfg) /\ SetCfg(Do_parse_prefix_expr_num(Cfg))

ParseGroupedExpr == En_parse_grouped_expr(Cfg) /\ SetCfg(Do_parse_grouped_expr(Cfg))

ParseGroupedExprClose ==
    En_parse_grouped_expr_close(Cfg) /\ SetCfg(Do_parse_grouped_expr_close(Cfg))

ParsePrefixExprNone ==
    En_parse_prefix_expr_none(Cfg) /\ SetCfg(Do_parse_prefix_expr_none(Cfg))

ParseExprPostfix == En_parse_expr_postfix(Cfg) /\ SetCfg(Do_parse_expr_postfix(Cfg))

ParseExprInfix == En_parse_expr_infix(Cfg) /\ SetCfg(Do_parse_expr_infix(Cfg))

ParseInfixExprRhs ==
    En_parse_infix_expr_rhs(Cfg) /\ SetCfg(Do_parse_infix_expr_rhs(Cfg))

ParseExprReturn == En_parse_expr_return(Cfg) /\ SetCfg(Do_parse_expr_return(Cfg))

MaxTokens == 3

MaxArith == 5

MaxPostfix == 7

N1 == Num(I(1))

N2 == Num(I(2))

\* every token, two literals
AllTokens ==
    {N1, N2, Plus, Minus, Asterisk, Slash, Percent, Lparen, Rparen,
     Exclamation, Circumflex}

\* the tokens of parenthesis-free arithmetic
ArithTokens == {N1, N2, Plus, Minus, Asterisk, Slash, Percent}

\* the tokens of chained postfix operators
PostfixTokens == {N1, Minus, Exclamation}

\* the postfix chains in parentheses, alone and before a leftover token
Enclosed ==
    {<<Lparen>> \o s \o <<Rparen>> \o l :
        s \in {t \in SeqsUpTo(PostfixTokens, MaxPostfix - 1) :
                  Len(t) >= MaxPostfix - 2 /\ t[1] = Minus},
        l \in {<<>>, <<N2>>}}

ParserInputs ==
    SeqsUpTo(AllTokens, MaxTokens)
        \cup SeqsUpTo(ArithTokens, MaxArith)
        \cup SeqsUpTo(PostfixTokens, MaxPostfix)
        \cup Enclosed

InitParser ==
    /\ \E toks \in ParserInputs :
          LET c == NewParser(toks)
          IN  /\ tokens = c.tokens /\ index = c.index /\ stack = c.stack
              /\ ret = c.ret /\ grouped = c.grouped /\ postfix_log = c.postfix_log
    /\ EvalAtRest /\ LexerAtRest

NextParser ==
    \/ ParseExprPrefix
    \/ ParsePrefixExprUnary
    \/ ParsePrefixExprWrap
    \/ ParsePrefixExprNum
    \/ ParseGroupedExpr
    \/ ParseGroupedExprClose
    \/ ParsePrefixExprNone
    \/ ParseExprPostfix
    \/ ParseExprInfix
    \/ ParseInfixExprRhs
    \/ ParseExprReturn

SpecParser == InitParser /\ [][NextParser]_vars

(* Evaluator. *)

MaxSmall == 3

MaxFact == 22

Lit(n) == UnaryExpr(I(n))

Literals ==
    {Lit(n) : n \in 0..MaxSmall} \cup {UnaryExpr(I64_MAX), UnaryExpr(ISub(I64_MAX, I(1)))}

\* -9223372036854775807 - 1, which evaluates to i64::MIN
MinTree == parse(<<Minus, Num(I64_MAX), Minus, N1>>)

Operands ==
    Literals \cup {PrefixExpr(PrefixMinus, l) : l \in Literals} \cup {MinTree}

\* operands that evaluate to None or abort
Failing ==
    {BinaryExpr(Lit(1), Lit(0), "Div"), PostfixExpr(Factorial, UnaryExpr(I64_MAX)),
     PrefixExpr(PrefixMinus, MinTree)}

Exponents == {<<>>, <<1>>, <<2>>, <<3>>, <<62>>, <<63>>, <<64>>}

EvalInputs ==
    Operands
        \cup {PrefixExpr(op, o) : op \in {PrefixPlus, PrefixMinus}, o \in Operands \cup Failing}
        \cup {PostfixExpr(Factorial, o) :
                 o \in Operands \cup Failing \cup {Lit(n) : n \in 0..MaxFact}}
        \cup {PostfixExpr(Exponential(e), o) : e \in Exponents, o \in Operands}
        \cup {BinaryExpr(l, r, op) :
                 l \in Operands \cup Failing, r \in Operands \cup Failing,
                 op \in {"Add", "Sub", "Mul", "Div", "Rem"}}
        \cup {parse(<<Minus, Lparen, Minus, Num(I64_MAX), Minus, N1, Rparen>>)}

InitEval ==
    /\ expr \in EvalInputs
    /\ overflow_checks \in BOOLEAN
    /\ result = Pending /\ muls = 0
    /\ ParserAtRest /\ LexerAtRest

\* the multiplications of the factorial at the root of e, 0 without one
RootMuls(e, checks) ==
    IF e.k = "PostfixExpr" /\ e.op.p = "Factorial" /\ eval(e.e, checks).k = "Some"
    THEN factorial_run(eval(e.e, checks).v).muls
    ELSE 0

Evaluate ==
    /\ result = Pending
    /\ result' = eval(expr, overflow_checks)
    /\ muls' = RootMuls(expr, overflow_checks)
    /\ UNCHANGED <<expr, overflow_checks, parserVars, lexerVars>>

NextEval == Evaluate

SpecEval == InitEval /\ [][NextEval]_vars

-----------------------------------------------------------------------------
(* The lexer's claim.                                                      *)

\* the value of at most four decimal digits
RECURSIVE LimbValue(_)
LimbValue(ds) ==
    IF ds = <<>> THEN 0
    ELSE LimbValue(SubSeq(ds, 1, Len(ds) - 1)) * 10 + to_digit(ds[Len(ds)])

\* the base-10 value of a digit string, read off in groups of four digits
RECURSIVE DecLimbs(_)
DecLimbs(ds) ==
    IF ds = <<>> THEN <<>>
    ELSE LET n == Len(ds)
             g == IF n >= 4 THEN 4 ELSE n
         IN  <<LimbValue(SubSeq(ds, n - g + 1, n))>> \o DecLimbs(SubSeq(ds, 1, n - g))

DecValue(ds) == MkInt(FALSE, MagNorm(DecLimbs(ds)))

\* the longest run of digits s starts with
RECURSIVE DigitRun(_)
DigitRun(s) ==
    IF s = <<>> \/ ~IsDigit(Head(s)) THEN <<>> ELSE <<Head(s)>> \o DigitRun(Tail(s))

\* the token sequence of a line, None when a character is no token or a run of
\* digits is worth more than 9223372036854775807
RECURSIVE TokensOf(_)
TokensOf(s) ==
    IF s = <<>> THEN [k |-> "Some", v |-> <<>>]
    ELSE IF is_whitespace(Head(s)) THEN TokensOf(Tail(s))
    ELSE LET run  == DigitRun(s)
             tok  == IF run # <<>> THEN Num(DecValue(run)) ELSE SymbolToken(Head(s))
             used == IF run # <<>> THEN Len(run) ELSE 1
             rest == TokensOf(SubSeq(s, used + 1, Len(s)))
         IN  IF tok = NoToken \/ rest = None THEN None
             ELSE IF run # <<>> /\ ILt(I64_MAX, DecValue(run)) THEN None
             ELSE [k |-> "Some", v |-> <<tok>> \o rest.v]

\* C6: tokenize returns the line's tokens, each run of decimal digits as one Num
\* holding its base-10 value, and returns None for the whole line when a run is
\* worth more than 9223372036854775807, whatever came before the run.
C6_DigitRun == lex_pc = "done" => lex_out = TokensOf(line)

\* "1 9223372036854775808": a token was lexed, then the run overflowed
C6_Witness ==
    /\ lex_pc = "done"
    /\ line = <<"1", " ">> \o MaxStem \o <<"0", "8">>
    /\ lexed = <<N1>>
    /\ lex_out = None

-----------------------------------------------------------------------------
(* The parser's claims.                                                    *)

Done == stack = <<>>

InfixTokens == {"Plus", "Minus", "Asterisk", "Slash", "Percent"}

ArithKinds == InfixTokens \cup {"Num"}

\* a parenthesis-free expression of literals, binary operators and unary signs:
\* signs and a literal, then operator, signs, literal, and so on
IsArithmetic(s) ==
    /\ s # <<>>
    /\ \A i \in 1..Len(s) : s[i].t \in ArithKinds
    /\ s[Len(s)].t = "Num"
    /\ \A i \in 1..Len(s) :
          IF i > 1 /\ s[i - 1].t = "Num" THEN s[i].t # "Num"
          ELSE s[i].t \in {"Num", "Plus", "Minus"}

\* the positions of the binary operators of s: those right after a literal
BinaryAt(s) == {i \in 2..Len(s) : s[i].t # "Num" /\ s[i - 1].t = "Num"}

PrefixOperator(t) == IF t = "Plus" THEN PrefixPlus ELSE PrefixMinus

\* the tree of an arithmetic expression by the standard rules: split at the last
\* + or -, else at the last * / %, else apply the signs to the literal
RECURSIVE StandardTree(_)
StandardTree(s) ==
    LET sums == {i \in BinaryAt(s) : s[i].t \in {"Plus", "Minus"}}
        at   == IF sums # {} THEN MaxOf(sums) ELSE MaxOf(BinaryAt(s))
    IN  IF BinaryAt(s) # {}
        THEN BinaryExpr(StandardTree(SubSeq(s, 1, at - 1)),
                        StandardTree(SubSeq(s, at + 1, Len(s))),
                        InfixOperator(s[at].t).op)
        ELSE IF Len(s) = 1 THEN UnaryExpr(s[1].n)
        ELSE PrefixExpr(PrefixOperator(s[1].t), StandardTree(Tail(s)))

\* C1: for a parenthesis-free sequence of literals, binary operators and unary
\* signs, parse returns the tree of the standard rules: * / % bind tighter than
\* + -, equal precedence groups to the left, a sign applies to the operand right
\* after it.
C1_StandardTree == Done /\ IsArithmetic(tokens) => ret = StandardTree(tokens)

\* 1 + 2 * 1 parsed as 1 + (2 * 1)
C1_Witness ==
    /\ Done
    /\ tokens = <<N1, Plus, N2, Asterisk, N1>>
    /\ ret = BinaryExpr(Lit(1), BinaryExpr(Lit(2), Lit(1), "Mul"), "Add")

\* C3 as claimed: in the tree parse returns, a postfix operator whose operand was
\* not in parentheses wraps the literal itself, so that a Prefix or Binary operand
\* of a Postfix node was always in parentheses.
C3_PostfixOnLiteral ==
    Done /\ ret # None =>
        \A w \in postfix_log : ~w.grouped => w.operand.k = "UnaryExpr"

\* C3 as the code has it: a Binary operand of a Postfix node was in parentheses;
\* an operand that was not is the literal itself, or a Prefix node whose own
\* operand is a Postfix node (the second of two postfix operators after a signed
\* operand: -a!! is (-(a!))!).
C3_PostfixOperand ==
    Done /\ ret # None =>
        \A w \in postfix_log :
            ~w.grouped =>
                \/ w.operand.k = "UnaryExpr"
                \/ w.operand.k = "PrefixExpr" /\ w.operand.e.k = "PostfixExpr"

\* - 1 ! ! parsed as (-(1!))!
C3_Witness ==
    /\ Done
    /\ tokens = <<Minus, N1, Exclamation, Exclamation>>
    /\ ret = PostfixExpr(Factorial,
                 PrefixExpr(PrefixMinus, PostfixExpr(Factorial, Lit(1))))

\* the grammar of the interface:
\*   expr := prefix postfix? (infix_op expr)*
\*   prefix := ('+' | '-') expr | NUMBER | '(' expr ')'
\*   postfix := '!' | '^' NUMBER
RECURSIVE IsExpr(_, _, _), IsPrefix(_, _, _), IsInfixes(_, _, _)
IsExpr(s, i, j) ==
    \E m \in i..j :
        /\ IsPrefix(s, i, m)
        /\ \/ IsInfixes(s, m + 1, j)
           \/ m + 1 <= j /\ s[m + 1].t = "Exclamation" /\ IsInfixes(s, m + 2, j)
           \/ /\ m + 2 <= j
              /\ s[m + 1].t = "Circumflex" /\ s[m + 2].t = "Num"
              /\ IsInfixes(s, m + 3, j)

IsPrefix(s, i, j) ==
    \/ i = j /\ s[i].t = "Num"
    \/ i < j /\ s[i].t \in {"Plus", "Minus"} /\ IsExpr(s, i + 1, j)
    \/ i + 2 <= j /\ s[i].t = "Lparen" /\ s[j].t = "Rparen" /\ IsExpr(s, i + 1, j - 1)

IsInfixes(s, i, j) ==
    \/ i > j
    \/ /\ i < j
       /\ s[i].t \in InfixTokens
       /\ \E m \in (i + 1)..j : IsExpr(s, i + 1, m) /\ IsInfixes(s, m + 1, j)

WellFormed(s) == s # <<>> /\ IsExpr(s, 1, Len(s))

\* the splits of the tokens into an expression and leftover tokens that start
\* with a literal or a parenthesis
Leftovers ==
    {n \in 1..(Len(tokens) - 1) : tokens[n + 1].t \in {"Num", "Lparen", "Rparen"}}

Front(n) == SubSeq(tokens, 1, n)

Consumed(s) ==
    LET c == ParseRun(NewParser(s))
    IN  c.ret # None /\ c.index = Len(s) - 1

DanglingOperator ==
    /\ Len(tokens) >= 2
    /\ tokens[Len(tokens)].t \in InfixTokens
    /\ WellFormed(Front(Len(tokens) - 1))

C10_Cursor ==
    [][index' >= index /\ index <= Len(tokens) /\ index' <= Len(tokens')]_vars

\* 1 ^ fails with the cursor past the last token
C10_Witness == Done /\ tokens = <<N1, Circumflex>> /\ index = 2 /\ ret = None

-----------------------------------------------------------------------------
(* The evaluator's claims.                                                 *)

Evaluated == result # Pending

\* the operand of the root evaluates to a value
OperandValue(e) == eval(e, overflow_checks)

\* C2: a Prefix Minus node whose operand evaluates to i64::MIN evaluates to
\* None; for any other operand value n it evaluates to -n.
C2_NegateMin ==
    Evaluated /\ expr.k = "PrefixExpr" /\ expr.op = PrefixMinus
              /\ OperandValue(expr.e).k = "Some" =>
        LET n == OperandValue(expr.e).v
        IN  result = IF n = I64_MIN THEN None ELSE Some(INeg(n))

IAbs(x) == MkInt(FALSE, x.mag)

\* q is l / r truncated toward zero: l - q * r is smaller than r and has the
\* sign of l
IsQuotient(l, r, q) ==
    LET m == ISub(l, IMul(q, r))
    IN  ILt(IAbs(m), IAbs(r)) /\ (m = I(0) \/ m.neg = l.neg)

\* m is the remainder of l by r with the sign of l
IsRemainder(l, r, m) ==
    /\ ILt(IAbs(m), IAbs(r)) /\ (m = I(0) \/ m.neg = l.neg)
    /\ IsQuotient(l, r, IDiv(ISub(l, m), r))
    /\ IMul(IDiv(ISub(l, m), r), r) = ISub(l, m)

\* v is the exact integer l op r
IsExact(op, l, r, v) ==
    CASE op = "Add" -> v = IAdd(l, r)
      [] op = "Sub" -> v = ISub(l, r)
      [] op = "Mul" -> v = IMul(l, r)
      [] op = "Div" -> IsQuotient(l, r, v)
      [] op = "Rem" -> IsRemainder(l, r, v)

\* the exact integer l op r
Exact(op, l, r) ==
    CASE op = "Add" -> IAdd(l, r)
      [] op = "Sub" -> ISub(l, r)
      [] op = "Mul" -> IMul(l, r)
      [] op = "Div" -> IDiv(l, r)
      [] op = "Rem" -> IRem(l, r)

\* the root is a Binary node whose operands evaluate to values, the right one
\* not 0 for Div and Rem
BinaryCase ==
    /\ Evaluated /\ expr.k = "BinaryExpr"
    /\ OperandValue(expr.left).k = "Some"
    /\ OperandValue(expr.right).k = "Some"
    /\ expr.op \in {"Div", "Rem"} => OperandValue(expr.right).v # I(0)

\* the result is the exact l op r when that is an i64, None when it is not
ExactOrNone(op, l, r) ==
    IF InI64(Exact(op, l, r))
    THEN result.k = "Some" /\ IsExact(op, l, r, result.v)
    ELSE result = None

\* C4 as claimed: a Binary node evaluates to the exact l op r when that lies in
\* the i64 range, and to None exactly when it does not.
C4_ExactInRange ==
    BinaryCase =>
        ExactOrNone(expr.op, OperandValue(expr.left).v, OperandValue(expr.right).v)

\* C4 as the code has it: the same, except that i64::MIN % -1 evaluates to None
\* although the exact remainder is 0.
C4_ExactOrOverflow ==
    BinaryCase =>
        LET l == OperandValue(expr.left).v
            r == OperandValue(expr.right).v
        IN  IF expr.op = "Rem" /\ l = I64_MIN /\ r = I(-1)
            THEN result = None
            ELSE ExactOrNone(expr.op, l, r)

\* 9223372036854775807 + 1 evaluates to None
C4_Witness ==
    /\ Evaluated
    /\ expr = BinaryExpr(UnaryExpr(I64_MAX), Lit(1), "Add")
    /\ result = None

\* C5: a Binary Div or Rem node whose right operand evaluates to 0 evaluates to
\* None, whatever value the left operand evaluates to.
C5_DivideByZero ==
    /\ Evaluated /\ expr.k = "BinaryExpr" /\ expr.op \in {"Div", "Rem"}
    /\ OperandValue(expr.left).k = "Some"
    /\ OperandValue(expr.right) = Some(I(0))
    => result = None

\* 9223372036854775807 % 0 evaluates to None
C5_Witness ==
    /\ Evaluated
    /\ expr = BinaryExpr(UnaryExpr(I64_MAX), Lit(0), "Rem")
    /\ result = None

\* lo * (lo + 1) * ... * hi, exactly
RECURSIVE ExactProduct(_, _)
ExactProduct(lo, hi) ==
    IF lo = hi THEN I(lo)
    ELSE LET mid == (lo + hi) \div 2
         IN  IMul(ExactProduct(lo, mid), ExactProduct(mid + 1, hi))

\* k!, exactly
ExactFactorial(n) == IF n <= 1 THEN I(1) ELSE ExactProduct(2, n)

\* C9: a Postfix Factorial node whose operand evaluates to n evaluates to 1 for
\* n <= 1, to n! for 2 <= n <= 20, and to None for n >= 21 after at most 20
\* multiplications.
C9_Factorial ==
    Evaluated /\ expr.k = "PostfixExpr" /\ expr.op = Factorial
              /\ OperandValue(expr.e).k = "Some" =>
        LET n == OperandValue(expr.e).v
        IN  /\ ILe(n, I(1)) => result = Some(I(1))
            /\ \A m \in 2..20 : n = I(m) => result = Some(ExactFactorial(m))
            /\ ILe(I(21), n) => result = None /\ muls <= 20

\* 21! evaluates to None at the twentieth multiplication
C9_Witness ==
    /\ Evaluated
    /\ expr = PostfixExpr(Factorial, Lit(21))
    /\ result = None
    /\ muls = 20

=============================================================================
